---------------------------- MODULE Spec2Model ----------------------------
(***************************************************************************)
(* AVR_millis: the Timer0 millisecond time base (Sources/millis.c) and the *)
(* millis_T interval timer (Sources/millis.h).                             *)
(*                                                                         *)
(* A uint32_t is kept as the four bytes the AVR stores, least significant  *)
(* byte first, and the arithmetic on it is the byte-wise carry/borrow      *)
(* chain the 8-bit core executes; TLC's integers are narrower than 2^32,   *)
(* so the reference arithmetic of the properties works on two 16-bit       *)
(* halves instead.                                                         *)
(***************************************************************************)
EXTENDS Integers, Sequences, FiniteSets, TLC

VARIABLES
    System_millis,   \* millis.c:38, volatile uint32_t, four bytes
    TCCR0A,          \* Timer0 control register A: the set of its bits that are 1
    TCCR0B,          \* Timer0 control register B: the set of its bits that are 1
    TIMSK0,          \* Timer0 interrupt mask register
    TIFR0,           \* Timer0 interrupt flag register
    OCR0A,           \* Timer0 output compare register A
    TCNT0,           \* Timer0 counter
    SREG_I,          \* the global interrupt enable bit of SREG
    pc,              \* position of the main context
    isr,             \* position of the interrupt context
    isrTmp,          \* the registers of the running handler: the counter it loaded
    isrStack,        \* the handlers a nested interrupt has suspended, innermost first
    ledTimer,        \* the client's millis_T
    currentMillis,   \* the client's snapshot of System_millis, four bytes
    unread,          \* bytes of System_millis the read in progress has yet to load
    call,            \* the last interval-timer operation: its name, input and result
    probe,           \* an earlier result of expired; stale once advance was called
    deltaOf,         \* history: the inputs of the elapsed that computed Delta
    isrCount,        \* history: ISR executions completed since process start
    held,            \* history: values System_millis held during the read in progress
    sinceAdvance,    \* history: ISR executions completed since the last advance
    task,            \* history: the execution of the periodic task in progress
    period,          \* history: the compare-match period being measured
    budget           \* history: how much of each bounded resource the run has used

vars == <<System_millis, TCCR0A, TCCR0B, TIMSK0, TIFR0, OCR0A, TCNT0, SREG_I,
          pc, isr, isrTmp, isrStack, ledTimer, currentMillis, unread, call, probe,
          deltaOf, isrCount, held, sinceAdvance, task, period, budget>>

regs    == <<TCCR0A, TCCR0B, TIMSK0, TIFR0, OCR0A, TCNT0>>
handler == <<isr, isrTmp, isrStack>>
client  == <<ledTimer, currentMillis, unread, call, probe, deltaOf>>

-----------------------------------------------------------------------------
(* Bounds of the model.                                                    *)

\* Compare matches the fine-grained timer is followed through.
MaxMatches == 3
\* Timer clocks that may fall inside one call of millis_Init.
MaxInitTicks == 2
\* Timer clocks that may fall inside one execution of the ISR.
MaxIsrTicks == 2
\* ISR executions followed one by one in the client model.
MaxFirings == 5
\* Long idle stretches (NearWrap short of a full wrap) in the client model.
MaxBursts == 1
\* How far short of 2^32 ISR executions one long idle stretch is.
NearWrap == 3
MaxMatchesPerPoll == 1

-----------------------------------------------------------------------------
(* uint32_t as four bytes, and the 8-bit core's arithmetic on it.          *)

Byte == 0..255

\* The uint32_t whose upper 16 bits are hi and lower 16 bits are lo.
U32(hi, lo) == <<lo % 256, lo \div 256, hi % 256, hi \div 256>>

Zero == U32(0, 0)
One  == U32(0, 1)

\* x + y: add, then add-with-carry three times; the last carry is dropped.
Add32(x, y) ==
    LET s1 == x[1] + y[1]
        s2 == x[2] + y[2] + (s1 \div 256)
        s3 == x[3] + y[3] + (s2 \div 256)
        s4 == x[4] + y[4] + (s3 \div 256)
    IN  <<s1 % 256, s2 % 256, s3 % 256, s4 % 256>>

\* The borrow out of byte i of x - y, given the borrow into it.
BorrowOut(x, y, i, bin) == IF x[i] - y[i] - bin < 0 THEN 1 ELSE 0

\* The final borrow of x - y (the carry flag after cp, cpc, cpc, cpc).
Borrow32(x, y) ==
    LET b1 == BorrowOut(x, y, 1, 0)
        b2 == BorrowOut(x, y, 2, b1)
        b3 == BorrowOut(x, y, 3, b2)
    IN  BorrowOut(x, y, 4, b3)

\* A subtraction whose bytes do not borrow from one another.
Sub32_NoBorrow(x, y) ==
    <<(x[1] - y[1]) % 256, (x[2] - y[2]) % 256,
      (x[3] - y[3]) % 256, (x[4] - y[4]) % 256>>

\* x - y: sub, then subtract-with-carry three times; the last borrow is dropped.
Sub32(x, y) ==
    LET b1 == BorrowOut(x, y, 1, 0)
        b2 == BorrowOut(x, y, 2, b1)
        b3 == BorrowOut(x, y, 3, b2)
    IN  <<(x[1] - y[1]) % 256, (x[2] - y[2] - b1) % 256,
          (x[3] - y[3] - b2) % 256, (x[4] - y[4] - b3) % 256>>

\* A comparison that takes bit 31 of its operands for a sign.
GE32_Signed(x, y) ==
    Borrow32([x EXCEPT ![4] = (x[4] + 128) % 256],
             [y EXCEPT ![4] = (y[4] + 128) % 256]) = 0

\* x >= y for unsigned operands: the compare chain leaves the carry clear.
GE32(x, y) == Borrow32(x, y) = 0

-----------------------------------------------------------------------------
(* The interval timer of millis.h.                                          *)

\* millis.h:29, the initializer of the example, for a given Interval.
NewTimer(interval) == [Previous |-> Zero, Delta |-> Zero, Interval |-> interval]

\* An elapsed time that is cut to zero when now is below Previous.
elapsed_Clamped(timer, now) ==
    IF GE32(now, timer.Previous) THEN Sub32(now, timer.Previous) ELSE Zero

\* millis.h:30, the right-hand side: now - timer.Previous.
elapsed(timer, now) == Sub32(now, timer.Previous)

\* An elapsed that restarts the period by itself.
StoreDelta_Advancing(timer, now) ==
    [timer EXCEPT !.Delta = elapsed(timer, now), !.Previous = now]

\* millis.h:30, the assignment: the elapsed time is cached in Delta.
StoreDelta(timer, now) == [timer EXCEPT !.Delta = elapsed(timer, now)]

\* A comparison that leaves out equality.
expired_Strict(timer, now) ==
    /\ GE32(elapsed(timer, now), timer.Interval)
    /\ elapsed(timer, now) # timer.Interval

\* millis.h:30-31, the condition: the elapsed time has reached Interval.
expired(timer, now) == GE32(elapsed(timer, now), timer.Interval)

\* No elapsed has computed Delta yet; Delta computed from now and previous.
NotComputed == [set |-> FALSE, now |-> Zero, previous |-> Zero]
ComputedFrom(now, previous) == [set |-> TRUE, now |-> now, previous |-> previous]

\* An advance that clears the cached Delta as well.
advance_Recompute(timer, now) == [timer EXCEPT !.Previous = now, !.Delta = Zero]

\* A reference point that moves on by Interval instead.
advance_ByInterval(timer, now) ==
    [timer EXCEPT !.Previous = Add32(timer.Previous, timer.Interval)]

\* millis.h:32: the reference point moves to now.
advance(timer, now) == [timer EXCEPT !.Previous = now]

-----------------------------------------------------------------------------
(* Reference arithmetic for the properties: a natural number below 2^32 as *)
(* its two 16-bit halves, [hi, lo], with the carry out kept apart.          *)

\* The number a uint32_t denotes.
Num(w) == [hi |-> w[3] + 256 * w[4], lo |-> w[1] + 256 * w[2]]

N(hi, lo) == [hi |-> hi, lo |-> lo]

\* a + b: the sum modulo 2^32 and how many times 2^32 was passed.
NumAdd(a, b) ==
    LET lo == a.lo + b.lo
        hi == a.hi + b.hi + (lo \div 65536)
    IN  [hi |-> hi % 65536, lo |-> lo % 65536, carry |-> hi \div 65536]

\* (a - b) mod 2^32.
NumSubMod(a, b) ==
    LET lo == a.lo - b.lo
        hi == a.hi - b.hi - (IF lo < 0 THEN 1 ELSE 0)
    IN  [hi |-> hi % 65536, lo |-> lo % 65536]

\* a >= b.
NumGE(a, b) == a.hi > b.hi \/ (a.hi = b.hi /\ a.lo >= b.lo)

\* A count of events: how many times it passed 2^32, and the rest.
Count0 == [wraps |-> 0, hi |-> 0, lo |-> 0]

CountAdd(c, n) ==
    LET s == NumAdd(N(c.hi, c.lo), n)
    IN  [wraps |-> c.wraps + s.carry, hi |-> s.hi, lo |-> s.lo]

CountMod(c) == N(c.hi, c.lo)

-----------------------------------------------------------------------------
(* The register primitives millis_Init uses, and the Timer0 hardware.      *)

\* bitSet(Reg, Bit), as used at millis.c:85.
bitSet(reg, bit) == reg \cup {bit}

\* bitClear(Reg, Bit), as used at millis.c:84.
bitClear(reg, bit) == reg \ {bit}

\* intFlag_clear(Reg, Bit), as used at millis.c:99: the flag ends up cleared.
intFlag_clear(reg, bit) == reg \ {bit}

\* millis.c:19, 74: the CPU clock the configuration assumes, in Hz.
F_CPU == 16000000

\* A compare value one too high.
OCR0A_OffByOne == 249 + 1

\* millis.c:102: the compare value millis_Init writes.
OCR0A_1ms == 249

\* The clock-select bits CS02:CS00 of TCCR0B.
ClockSelect(tccr0b) == tccr0b \cap {"CS00", "CS01", "CS02"}

\* millis.c:70, 89-93: the divider the clock-select bits choose (0: the timer
\* is stopped or clocked from the T0 pin, not from the CPU clock).
Prescaler(tccr0b) ==
    CASE ClockSelect(tccr0b) = {"CS00"}         -> 1
      [] ClockSelect(tccr0b) = {"CS01"}         -> 8
      [] ClockSelect(tccr0b) = {"CS00", "CS01"} -> 64
      [] ClockSelect(tccr0b) = {"CS02"}         -> 256
      [] ClockSelect(tccr0b) = {"CS00", "CS02"} -> 1024
      [] OTHER                                  -> 0

\* The timer counts: some clock source is selected.
ClockRunning(tccr0b) == ClockSelect(tccr0b) # {}

\* millis.c:69, 83-86: CTC mode is WGM02:WGM00 = 010.
CTCMode(tccr0a, tccr0b) ==
    /\ "WGM01" \in tccr0a
    /\ "WGM00" \notin tccr0a
    /\ "WGM02" \notin tccr0b

\* millis.c:73-77: the compare value for a 1 ms period, round(F / D / 1000) - 1.
Threshold(f, d) == ((2 * f + d * 1000) \div (2 * d * 1000)) - 1

\* Positions of the main context inside millis_Init.
InitPcs == {"L84", "L85", "L86", "L91", "L92", "L93", "L96", "L99", "L102"}

\* An ISR is executing.
InISR == isr # "idle"

\* millis.c:51-52, 96: the compare-match interrupt is taken when its flag is
\* set, its mask bit is set and the I bit of SREG is set.
InterruptReady ==
    /\ SREG_I
    /\ "OCIE0A" \in TIMSK0
    /\ "OCF0A" \in TIFR0

\* The main context executes an instruction: no ISR is running and none is due.
MainRuns == ~InISR /\ ~InterruptReady

-----------------------------------------------------------------------------
(* Timer0 counting.                                                        *)

\* The measurement of compare-match periods: a period is measured (ok) when
\* the match that starts it falls after millis_Init has returned, with
\* interrupts enabled and no ISR running; cyc counts its CPU cycles and incs
\* the increments of System_millis that fall into it.
Period0 == [ok |-> FALSE, cyc |-> 0, incs |-> 0, done |-> 0, last |-> 0, lastIncs |-> 0]

PeriodAtClock(match) ==
    LET cyc == IF period.ok THEN period.cyc + Prescaler(TCCR0B) ELSE 0
        ok  == pc \notin InitPcs /\ SREG_I /\ ~InISR
    IN  IF ~match THEN [period EXCEPT !.cyc = cyc]
        ELSE IF period.ok
             THEN [ok |-> ok, cyc |-> 0, incs |-> 0, done |-> period.done + 1,
                   last |-> cyc, lastIncs |-> period.incs]
             ELSE [period EXCEPT !.ok = ok, !.cyc = 0, !.incs = 0]

\* One clock of Timer0 (millis.c:49, 69-77): the counter equals OCR0A, so this
\* clock sets OCF0A and, in CTC mode, clears the counter; otherwise it counts.
\* A due interrupt is taken before the next timer clock.
TimerClock ==
    /\ ClockRunning(TCCR0B)
    /\ ~InterruptReady
    /\ budget.matches < MaxMatches
    /\ pc \in InitPcs => budget.initTicks < MaxInitTicks
    /\ InISR => budget.isrTicks < MaxIsrTicks
    /\ LET match == TCNT0 = OCR0A
       IN  /\ TCNT0' = IF match /\ CTCMode(TCCR0A, TCCR0B) THEN 0 ELSE (TCNT0 + 1) % 256
           /\ TIFR0' = IF match THEN TIFR0 \cup {"OCF0A"} ELSE TIFR0
           /\ period' = PeriodAtClock(match)
           /\ budget' = [budget EXCEPT
                  !.matches = IF match THEN @ + 1 ELSE @,
                  !.initTicks = IF pc \in InitPcs THEN @ + 1 ELSE @,
                  !.isrTicks = IF InISR THEN @ + 1 ELSE @]
    /\ UNCHANGED <<System_millis, TCCR0A, TCCR0B, TIMSK0, OCR0A, SREG_I, pc, handler,
                   client, isrCount, held, sinceAdvance, task>>

\* Timer0 counts on to its next compare match (millis.c:49), the clocks in
\* between taken together.
CompareMatch ==
    /\ ClockRunning(TCCR0B)
    /\ ~InterruptReady
    /\ budget.firings < MaxFirings
    /\ TCNT0' = IF CTCMode(TCCR0A, TCCR0B) THEN 0 ELSE (OCR0A + 1) % 256
    /\ TIFR0' = TIFR0 \cup {"OCF0A"}
    /\ budget' = [budget EXCEPT !.firings = @ + 1]
    /\ UNCHANGED <<System_millis, TCCR0A, TCCR0B, TIMSK0, OCR0A, SREG_I, pc, handler,
                   client, isrCount, held, sinceAdvance, task, period>>

-----------------------------------------------------------------------------
(* ISR(TIMER0_COMPA_vect), millis.c:55-58.                                 *)

\* An increment that forgets the carry into the upper bytes.
Increment_NoCarry(x) == <<(x[1] + 1) % 256, x[2], x[3], x[4]>>

\* millis.c:57: System_millis++.
Increment(x) == Add32(x, One)

\* A read of System_millis is in progress: some but not all bytes are loaded.
Reading == pc = "read" /\ unread # {} /\ unread # 1..4

\* The history kept when the ISR has run n more times and left the counter at v.
Counted(n, v) ==
    /\ isrCount' = CountAdd(isrCount, n)
    /\ sinceAdvance' = [sinceAdvance EXCEPT !.count = CountAdd(@, n)]
    /\ held' = IF Reading THEN held \cup {v} ELSE held
    /\ UNCHANGED task

\* A handler suspended by a nested interrupt: its position and registers.
Suspended == [pc |-> isr, tmp |-> isrTmp]

\* A handler entered with the I bit left set, as ISR_NOBLOCK would declare it.
ISR_Enter_NoBlock ==
    /\ InterruptReady
    /\ isr' = "L57"
    /\ isrTmp' = Zero
    /\ isrStack' = IF InISR THEN <<Suspended>> \o isrStack ELSE isrStack
    /\ SREG_I' = SREG_I
    /\ TIFR0' = TIFR0 \ {"OCF0A"}
    /\ budget' = [budget EXCEPT !.isrTicks = 0]
    /\ UNCHANGED <<System_millis, TCCR0A, TCCR0B, TIMSK0, OCR0A, TCNT0, pc,
                   client, isrCount, held, sinceAdvance, task, period>>

\* millis.c:55: the hardware takes the interrupt; it clears the I bit and the
\* compare-match flag.  A handler that was running is suspended.
ISR_Enter ==
    /\ InterruptReady
    /\ isr' = "L57"
    /\ isrTmp' = Zero
    /\ isrStack' = IF InISR THEN <<Suspended>> \o isrStack ELSE isrStack
    /\ SREG_I' = FALSE
    /\ TIFR0' = TIFR0 \ {"OCF0A"}
    /\ budget' = [budget EXCEPT !.isrTicks = 0]
    /\ UNCHANGED <<System_millis, TCCR0A, TCCR0B, TIMSK0, OCR0A, TCNT0, pc,
                   client, isrCount, held, sinceAdvance, task, period>>

\* millis.c:57, the read of System_millis++: the four bytes are loaded into
\* registers.
ISR_L57_Load ==
    /\ isr = "L57"
    /\ isr' = "L57w"
    /\ isrTmp' = System_millis
    /\ UNCHANGED <<System_millis, regs, SREG_I, pc, isrStack, client, isrCount,
                   held, sinceAdvance, task, period, budget>>

\* millis.c:57, the write of System_millis++: the registers are incremented
\* and stored.
ISR_L57 ==
    /\ isr = "L57w"
    /\ isr' = "L58"
    /\ System_millis' = Increment(isrTmp)
    /\ Counted(N(0, 1), System_millis')
    /\ period' = IF period.ok THEN [period EXCEPT !.incs = @ + 1] ELSE period
    /\ UNCHANGED <<regs, SREG_I, pc, isrTmp, isrStack, client, budget>>

\* millis.c:58: the handler returns with reti, which sets the I bit again and
\* resumes what the handler had interrupted.
ISR_Return ==
    /\ isr = "L58"
    /\ IF isrStack = << >>
       THEN isr' = "idle" /\ isrTmp' = Zero /\ isrStack' = isrStack
       ELSE /\ isr' = Head(isrStack).pc
            /\ isrTmp' = Head(isrStack).tmp
            /\ isrStack' = Tail(isrStack)
    /\ SREG_I' = TRUE
    /\ UNCHANGED <<System_millis, regs, pc, client, isrCount, held,
                   sinceAdvance, task, period, budget>>

\* Timer0 counts on to its next compare match while the client polls: a pass
\* of the polling loop takes far less than the millisecond between two
\* matches, so no more than MaxMatchesPerPoll matches fall into one pass.
CompareMatch_Polling ==
    /\ ClockRunning(TCCR0B)
    /\ ~InterruptReady
    /\ budget.sincePoll < MaxMatchesPerPoll
    /\ TCNT0' = IF CTCMode(TCCR0A, TCCR0B) THEN 0 ELSE (OCR0A + 1) % 256
    /\ TIFR0' = TIFR0 \cup {"OCF0A"}
    /\ budget' = [budget EXCEPT !.sincePoll = @ + 1]
    /\ UNCHANGED <<System_millis, TCCR0A, TCCR0B, TIMSK0, OCR0A, SREG_I, pc, handler,
                   client, isrCount, held, sinceAdvance, task, period>>

-----------------------------------------------------------------------------
(* millis_Init, millis.c:80-104, one statement a step.                     *)

\* What no statement of millis_Init touches.
InitFrame == UNCHANGED <<System_millis, TCNT0, SREG_I, handler, client, isrCount,
                         held, sinceAdvance, task, period, budget>>

\* millis.c:84.
millis_Init_L84 ==
    /\ MainRuns /\ pc = "L84" /\ pc' = "L85"
    /\ TCCR0A' = bitClear(TCCR0A, "WGM00")
    /\ UNCHANGED <<TCCR0B, TIMSK0, TIFR0, OCR0A>> /\ InitFrame

\* millis.c:85.
millis_Init_L85 ==
    /\ MainRuns /\ pc = "L85" /\ pc' = "L86"
    /\ TCCR0A' = bitSet(TCCR0A, "WGM01")
    /\ UNCHANGED <<TCCR0B, TIMSK0, TIFR0, OCR0A>> /\ InitFrame

\* millis.c:86.
millis_Init_L86 ==
    /\ MainRuns /\ pc = "L86" /\ pc' = "L91"
    /\ TCCR0B' = bitClear(TCCR0B, "WGM02")
    /\ UNCHANGED <<TCCR0A, TIMSK0, TIFR0, OCR0A>> /\ InitFrame

\* millis.c:91.
millis_Init_L91 ==
    /\ MainRuns /\ pc = "L91" /\ pc' = "L92"
    /\ TCCR0B' = bitSet(TCCR0B, "CS00")
    /\ UNCHANGED <<TCCR0A, TIMSK0, TIFR0, OCR0A>> /\ InitFrame

\* millis.c:92.
millis_Init_L92 ==
    /\ MainRuns /\ pc = "L92" /\ pc' = "L93"
    /\ TCCR0B' = bitSet(TCCR0B, "CS01")
    /\ UNCHANGED <<TCCR0A, TIMSK0, TIFR0, OCR0A>> /\ InitFrame

\* A statement that sets CS02 where millis.c:93 clears it.
millis_Init_L93_Set ==
    /\ MainRuns /\ pc = "L93" /\ pc' = "L96"
    /\ TCCR0B' = bitSet(TCCR0B, "CS02")
    /\ UNCHANGED <<TCCR0A, TIMSK0, TIFR0, OCR0A>> /\ InitFrame

\* millis.c:93.
millis_Init_L93 ==
    /\ MainRuns /\ pc = "L93" /\ pc' = "L96"
    /\ TCCR0B' = bitClear(TCCR0B, "CS02")
    /\ UNCHANGED <<TCCR0A, TIMSK0, TIFR0, OCR0A>> /\ InitFrame

\* A statement that enables global interrupts as well.
millis_Init_L96_Sei ==
    /\ MainRuns /\ pc = "L96" /\ pc' = "L99"
    /\ TIMSK0' = bitSet(TIMSK0, "OCIE0A")
    /\ SREG_I' = TRUE
    /\ UNCHANGED <<System_millis, TCCR0A, TCCR0B, TIFR0, OCR0A, TCNT0, handler, client,
                   isrCount, held, sinceAdvance, task, period, budget>>

\* A millis_Init that leaves the compare-match interrupt masked.
millis_Init_L96_Masked ==
    /\ MainRuns /\ pc = "L96" /\ pc' = "L99"
    /\ UNCHANGED <<TCCR0A, TCCR0B, TIMSK0, TIFR0, OCR0A>> /\ InitFrame

\* millis.c:96.
millis_Init_L96 ==
    /\ MainRuns /\ pc = "L96" /\ pc' = "L99"
    /\ TIMSK0' = bitSet(TIMSK0, "OCIE0A")
    /\ UNCHANGED <<TCCR0A, TCCR0B, TIFR0, OCR0A>> /\ InitFrame

\* millis.c:99.
millis_Init_L99 ==
    /\ MainRuns /\ pc = "L99" /\ pc' = "L102"
    /\ TIFR0' = intFlag_clear(TIFR0, "OCF0A")
    /\ UNCHANGED <<TCCR0A, TCCR0B, TIMSK0, OCR0A>> /\ InitFrame

\* A last statement that starts the counter from zero again.
millis_Init_L102_Reset ==
    /\ MainRuns /\ pc = "L102" /\ pc' = "L23"
    /\ OCR0A' = OCR0A_1ms
    /\ System_millis' = Zero
    /\ UNCHANGED <<TCCR0A, TCCR0B, TIMSK0, TIFR0, TCNT0, SREG_I, handler, client,
                   isrCount, held, sinceAdvance, task, period, budget>>

\* millis.c:102-104: the compare value is written and millis_Init returns to
\* its caller, which goes on at millis.c:23.
millis_Init_L102 ==
    /\ MainRuns /\ pc = "L102" /\ pc' = "L23"
    /\ OCR0A' = OCR0A_1ms
    /\ UNCHANGED <<TCCR0A, TCCR0B, TIMSK0, TIFR0>> /\ InitFrame

millis_Init ==
    \/ millis_Init_L84 \/ millis_Init_L85 \/ millis_Init_L86
    \/ millis_Init_L91 \/ millis_Init_L92 \/ millis_Init_L93
    \/ millis_Init_L96 \/ millis_Init_L99 \/ millis_Init_L102

\* millis.c:23: the caller enables global interrupts, and goes on to its loop.
globalInt_Enable ==
    /\ MainRuns /\ pc = "L23" /\ pc' = "read"
    /\ SREG_I' = TRUE
    /\ UNCHANGED <<System_millis, regs, handler, client, isrCount, held,
                   sinceAdvance, task, period, budget>>

-----------------------------------------------------------------------------
(* The client's polling loop: the example of millis.h:27-34.               *)

\* millis.h:30: System_millis is read with interrupts enabled; the 8-bit core
\* loads its four bytes one at a time, in an order the build chooses.
LoadByte(i) ==
    /\ MainRuns /\ pc = "read"
    /\ i \in unread
    /\ currentMillis' = [currentMillis EXCEPT ![i] = System_millis[i]]
    /\ held' = IF unread = 1..4 THEN {System_millis} ELSE held
    /\ IF unread = {i}
       THEN pc' = "L30" /\ unread' = 1..4
       ELSE pc' = "read" /\ unread' = unread \ {i}
    /\ UNCHANGED <<System_millis, regs, SREG_I, handler, ledTimer, call, probe, deltaOf,
                   isrCount, sinceAdvance, task, period, budget>>

\* millis.h:30: Delta = (the value read) - Previous.
Loop_L30 ==
    /\ MainRuns /\ pc = "L30" /\ pc' = "L31"
    /\ ledTimer' = StoreDelta(ledTimer, currentMillis)
    /\ deltaOf' = ComputedFrom(currentMillis, ledTimer.Previous)
    /\ held' = {}
    /\ UNCHANGED <<System_millis, regs, SREG_I, handler, currentMillis, unread, call,
                   probe, isrCount, sinceAdvance, task, period, budget>>

\* The periodic task in progress: whether one ran before it (again), how many
\* ISR executions completed between the two (gap), and the Previous it
\* replaced (prev).
NoTask == [ran |-> FALSE, again |-> FALSE, gap |-> Count0, prev |-> Zero]

\* A test that takes the branch while the interval has not expired.
Loop_L31_Inverted ==
    /\ MainRuns /\ pc = "L31"
    /\ pc' = IF GE32(ledTimer.Delta, ledTimer.Interval) THEN "read" ELSE "L32"
    /\ budget' = [budget EXCEPT !.sincePoll = 0]
    /\ UNCHANGED <<System_millis, regs, SREG_I, handler, client,
                   isrCount, held, sinceAdvance, task, period>>

\* millis.h:31: if (Delta >= Interval).
Loop_L31 ==
    /\ MainRuns /\ pc = "L31"
    /\ pc' = IF GE32(ledTimer.Delta, ledTimer.Interval) THEN "L32" ELSE "read"
    /\ budget' = [budget EXCEPT !.sincePoll = 0]
    /\ UNCHANGED <<System_millis, regs, SREG_I, handler, client, isrCount, held,
                   sinceAdvance, task, period>>

\* millis.h:32: Previous = currentMillis.
Loop_L32 ==
    /\ MainRuns /\ pc = "L32" /\ pc' = "L33"
    /\ ledTimer' = advance(ledTimer, currentMillis)
    /\ sinceAdvance' = [atCounter |-> currentMillis = System_millis, count |-> Count0]
    /\ task' = [ran |-> TRUE, again |-> task.ran, gap |-> sinceAdvance.count,
                prev |-> ledTimer.Previous]
    /\ UNCHANGED <<System_millis, regs, SREG_I, handler, currentMillis, unread, call,
                   probe, deltaOf, isrCount, held, period, budget>>

\* millis.h:33: the periodic task has run, and the loop polls again.
Loop_L33 ==
    /\ MainRuns /\ pc = "L33" /\ pc' = "read"
    /\ task' = [NoTask EXCEPT !.ran = TRUE]
    /\ UNCHANGED <<System_millis, regs, SREG_I, handler, client, isrCount, held,
                   sinceAdvance, period, budget>>

\* The number of ISR executions in one long stretch: 2^32 - NearWrap.
LongRun == N(65535, 65536 - NearWrap)

\* millis.h:33, millis.c:55-58: the periodic task takes long; the timer
\* interrupts it every millisecond, LongRun times in all, each ISR running to
\* its end before the next compare match.
Task_Long ==
    /\ MainRuns /\ pc = "L33"
    /\ SREG_I /\ "OCIE0A" \in TIMSK0 /\ ClockRunning(TCCR0B)
    /\ budget.bursts < MaxBursts
    /\ budget' = [budget EXCEPT !.bursts = @ + 1]
    /\ System_millis' = Add32(System_millis, U32(LongRun.hi, LongRun.lo))
    /\ Counted(LongRun, System_millis')
    /\ UNCHANGED <<regs, SREG_I, pc, handler, client, period>>

-----------------------------------------------------------------------------
(* The interval-timer operations on their own, for inputs of the client's  *)
(* choice: elapsed, expired and advance of a millis_T.                     *)

NoCall  == [op |-> "none", now |-> Zero, delta |-> Zero, flag |-> FALSE]
NoProbe == [set |-> FALSE, now |-> Zero, flag |-> FALSE, stale |-> FALSE]

TimerFrame == UNCHANGED <<System_millis, regs, SREG_I, pc, handler, currentMillis,
                          unread, isrCount, held, sinceAdvance, task, period, budget>>

\* millis.h:30: elapsed(timer, now), its result cached in Delta.
Elapsed(now) ==
    /\ pc = "client"
    /\ ledTimer' = StoreDelta(ledTimer, now)
    /\ call' = [op |-> "elapsed", now |-> now, delta |-> ledTimer'.Delta, flag |-> FALSE]
    /\ deltaOf' = ComputedFrom(now, ledTimer.Previous)
    /\ UNCHANGED probe
    /\ TimerFrame

\* millis.h:30-31: expired(timer, now); the timer is left as it is.
Expired(now) ==
    /\ pc = "client"
    /\ call' = [op |-> "expired", now |-> now, delta |-> Zero,
                flag |-> expired(ledTimer, now)]
    /\ probe' \in {probe, [set |-> TRUE, now |-> now, flag |-> call'.flag,
                            stale |-> FALSE]}
    /\ UNCHANGED <<ledTimer, deltaOf>>
    /\ TimerFrame

\* millis.h:32: advance(timer, now).
Advance(now) ==
    /\ pc = "client"
    /\ ledTimer' = advance(ledTimer, now)
    /\ call' = [op |-> "advance", now |-> now, delta |-> Zero, flag |-> FALSE]
    /\ probe' = IF probe.set THEN [probe EXCEPT !.stale = TRUE] ELSE probe
    /\ UNCHANGED deltaOf
    /\ TimerFrame

-----------------------------------------------------------------------------
(* Initial states and specifications.                                      *)

Budget0 == [matches |-> 0, initTicks |-> 0, isrTicks |-> 0, firings |-> 0, bursts |-> 0,
            sincePoll |-> 0]
SinceAdvance0 == [atCounter |-> FALSE, count |-> Count0]

\* millis.c:38 and the start of the program: the counter is zero, no ISR runs.
InitProcess ==
    /\ System_millis = Zero
    /\ isr = "idle"
    /\ isrTmp = Zero
    /\ isrStack = << >>
    /\ currentMillis = Zero
    /\ unread = 1..4
    /\ call = NoCall
    /\ probe = NoProbe
    /\ deltaOf = NotComputed
    /\ isrCount = Count0
    /\ held = {}
    /\ sinceAdvance = SinceAdvance0
    /\ task = NoTask
    /\ period = Period0
    /\ budget = Budget0

\* Intervals of the polling client.
Intervals == {U32(0, 0), U32(0, 2)}

\* The program of millis.c:22-23 and millis.h:28-34 after reset: the Timer0
\* registers hold their reset values; the I bit is the caller's.
Init ==
    /\ InitProcess
    /\ TCCR0A = {} /\ TCCR0B = {} /\ TIMSK0 = {} /\ TIFR0 = {}
    /\ OCR0A = 0 /\ TCNT0 = 0
    /\ SREG_I \in BOOLEAN
    /\ pc = "L84"
    /\ ledTimer \in {NewTimer(i) : i \in Intervals}

Next ==
    \/ millis_Init
    \/ globalInt_Enable
    \/ CompareMatch
    \/ ISR_Enter \/ ISR_L57_Load \/ ISR_L57 \/ ISR_Return
    \/ \E i \in 1..4 : LoadByte(i)
    \/ Loop_L30 \/ Loop_L31 \/ Loop_L32 \/ Loop_L33
    \/ Task_Long

Spec == Init /\ [][Next]_vars

\* Contents Timer0's registers may hold when millis_Init is called.
PriorTCCR0A == {{}, {"WGM00"}, {"WGM00", "WGM01"}}
PriorTCCR0B == {{}, {"CS00", "CS01"}, {"WGM02", "CS02"}}
PriorOCR0A  == {0, 255}
PriorTCNT0  == {0, 254}

\* millis_Init called with Timer0 in any of these states, then
\* globalInt_Enable, then the timer and its ISR alone.
InitHW ==
    /\ InitProcess
    /\ TCCR0A \in PriorTCCR0A
    /\ TCCR0B \in PriorTCCR0B
    /\ TIMSK0 \in {{}, {"OCIE0A"}}
    /\ TIFR0 \in {{}, {"OCF0A"}}
    /\ OCR0A \in PriorOCR0A
    /\ TCNT0 \in PriorTCNT0
    /\ SREG_I \in BOOLEAN
    /\ pc = "L84"
    /\ ledTimer = NewTimer(U32(0, 1000))

NextHW ==
    \/ millis_Init
    \/ globalInt_Enable
    \/ TimerClock
    \/ ISR_Enter \/ ISR_L57_Load \/ ISR_L57 \/ ISR_Return

SpecHW == InitHW /\ [][NextHW]_vars

\* Intervals of the client that waits: none, short, and the 1000 ms of
\* millis.c:25 and millis.h:29.
WaitIntervals == {U32(0, 0), U32(0, 2), U32(0, 1000)}

\* The program of millis.c:22-25 after reset: millis_Init, globalInt_Enable,
\* then the client polls until it sees the interval expired.  The wait of
\* millis.c:24-25 is the loop of millis.h:30-31 with Previous for start.
InitWait ==
    /\ InitProcess
    /\ TCCR0A = {} /\ TCCR0B = {} /\ TIMSK0 = {} /\ TIFR0 = {}
    /\ OCR0A = 0 /\ TCNT0 = 0
    /\ SREG_I \in BOOLEAN
    /\ pc = "L84"
    /\ ledTimer \in {NewTimer(i) : i \in WaitIntervals}

\* The steps of the main context while it waits.
MainWaits ==
    \/ millis_Init
    \/ globalInt_Enable
    \/ \E i \in 1..4 : LoadByte(i)
    \/ Loop_L30 \/ Loop_L31

\* The steps of the interrupt handler.
HandlerRuns == ISR_Enter \/ ISR_L57_Load \/ ISR_L57 \/ ISR_Return

NextWait ==
    \/ MainWaits
    \/ CompareMatch_Polling
    \/ HandlerRuns

\* Timer0 keeps counting, the CPU takes a pending interrupt and executes the
\* handler to its end, and it executes the main program whenever no handler
\* runs.
SpecWait ==
    /\ InitWait /\ [][NextWait]_vars
    /\ WF_vars(CompareMatch_Polling)
    /\ WF_vars(HandlerRuns)
    /\ WF_vars(MainWaits)

\* Counter values and intervals the interval-timer operations are tried on.
TimerVals == {U32(0, 0), U32(0, 1), U32(0, 999), U32(0, 1000), U32(1, 0),
              U32(65535, 65534), U32(65535, 65535)}
TimerIntervals == {U32(0, 0), U32(0, 1), U32(0, 1000), U32(65535, 65535)}

\* A millis_T with any initial field values, and no timer hardware.
InitTimer ==
    /\ InitProcess
    /\ TCCR0A = {} /\ TCCR0B = {} /\ TIMSK0 = {} /\ TIFR0 = {}
    /\ OCR0A = 0 /\ TCNT0 = 0
    /\ SREG_I = FALSE
    /\ pc = "client"
    /\ ledTimer \in [Previous : TimerVals, Delta : {Zero}, Interval : TimerIntervals]

NextTimer ==
    \/ \E now \in TimerVals : Elapsed(now)
    \/ \E now \in TimerVals : Expired(now)
    \/ \E now \in TimerVals : Advance(now)

SpecTimer == InitTimer /\ [][NextTimer]_vars

-----------------------------------------------------------------------------
(* Properties.                                                             *)

Max32 == U32(65535, 65535)

\* Every uint32_t of the program is four bytes.
TypeOK ==
    /\ System_millis \in [1..4 -> Byte]
    /\ currentMillis \in [1..4 -> Byte]
    /\ \A f \in {"Previous", "Delta", "Interval"} : ledTimer[f] \in [1..4 -> Byte]
    /\ OCR0A \in Byte /\ TCNT0 \in Byte

\* Global interrupts are enabled (the I bit is cleared only while an ISR runs).
InterruptsOn == SREG_I \/ InISR

\* millis_Init has returned and global interrupts are enabled.
Running == pc \notin InitPcs /\ InterruptsOn

\* The step is an execution of millis.c:57 by the ISR.
IsrIncrements == isr = "L57w" /\ isr' = "L58"

\* The step is a long stretch of ISR executions under the periodic task.
IsrRunsLong == pc = "L33" /\ pc' = "L33" /\ budget'.bursts = budget.bursts + 1

\* C1: System_millis is the number of completed ISR executions modulo 2^32:
\* zero at start, one more after each execution of the ISR, and the only step
\* of the ISR that does not increase it is the wrap from 2^32-1 to 0.
C1_CounterCountsIsrExecutions ==
    /\ [](Num(System_millis) = CountMod(isrCount))
    /\ [][IsrIncrements =>
            /\ Num(System_millis') = CountMod(CountAdd(isrCount, N(0, 1)))
            /\ isrCount' = CountAdd(isrCount, N(0, 1))
            /\ \/ /\ NumGE(Num(System_millis'), Num(System_millis))
                  /\ System_millis' # System_millis
               \/ System_millis = Max32 /\ System_millis' = Zero]_vars

\* C1's case: the counter has wrapped to zero after 2^32 executions.
C1_Witness == isrCount.wraps = 1 /\ System_millis = Zero

\* C2: a completed read of System_millis by the main context yields a value
\* the counter held at some instant during the read.
C2_ReadIsNeverTorn == pc = "L30" => currentMillis \in held

\* C3: elapsed(timer, now) is (now - Previous) mod 2^32 and is what Delta
\* caches; with Previous = 2^32-1 and now = 0 it is 1.
C3_ElapsedIsWrappingDifference ==
    call.op = "elapsed" =>
        /\ Num(call.delta) = NumSubMod(Num(call.now), Num(ledTimer.Previous))
        /\ ledTimer.Delta = call.delta
        /\ (ledTimer.Previous = Max32 /\ call.now = Zero) => call.delta = One

\* C3's case: elapsed was computed across the wrap.
C3_Witness ==
    call.op = "elapsed" /\ ledTimer.Previous = Max32 /\ call.now = Zero

\* C4: expired(timer, now) is true exactly when elapsed(timer, now) is at
\* least Interval, and a repeated call with the same now gives the same result
\* as long as advance was not called in between.
C4_ExpiredIffElapsedReachesInterval ==
    call.op = "expired" =>
        /\ call.flag <=> NumGE(Num(elapsed(ledTimer, call.now)), Num(ledTimer.Interval))
        /\ (probe.set /\ ~probe.stale /\ probe.now = call.now) => call.flag = probe.flag

\* C4's case: expired was called again with the same now, elapsed having been
\* called too, and it is true as before.
C4_Witness ==
    /\ call.op = "expired" /\ call.flag
    /\ probe.set /\ ~probe.stale /\ probe.now = call.now
    /\ ledTimer.Delta # Zero

\* C5: advance(timer, now) sets Previous to now, and expired(timer, now) is
\* then false when Interval > 0; with Interval = 1000 and Previous = 0 expired
\* is false at 999 and true at 1000, and false at 1000 after advance(timer, 1000).
C5_AdvanceRestartsThePeriod ==
    /\ call.op = "advance" => ledTimer.Previous = call.now
    /\ (call.op = "expired" /\ call.now = ledTimer.Previous /\ ledTimer.Interval # Zero)
          => ~call.flag
    /\ (call.op = "expired" /\ ledTimer.Interval = U32(0, 1000) /\ ledTimer.Previous = Zero)
          => /\ call.now = U32(0, 999) => ~call.flag
             /\ call.now = U32(0, 1000) => call.flag

\* C5's case: expired was true at 1000, advance was called, and expired at
\* 1000 is now false with Previous = 1000.
C5_Witness ==
    /\ probe.set /\ probe.stale /\ probe.now = U32(0, 1000) /\ probe.flag
    /\ call.op = "expired" /\ call.now = U32(0, 1000) /\ ~call.flag
    /\ ledTimer.Previous = U32(0, 1000) /\ ledTimer.Interval = U32(0, 1000)

\* C6: after advance(timer, c) with c the current counter value and k < 2^32
\* further ISR executions, elapsed(timer, System_millis) is k, also across the
\* wrap: advance at 4294967294 and three ticks give counter 1 and elapsed 3.
C6_ElapsedCountsTicksSinceAdvance ==
    (sinceAdvance.atCounter /\ sinceAdvance.count.wraps = 0) =>
        /\ Num(elapsed(ledTimer, System_millis)) = CountMod(sinceAdvance.count)
        /\ (ledTimer.Previous = U32(65535, 65534) /\ CountMod(sinceAdvance.count) = N(0, 3))
              => (System_millis = One /\ elapsed(ledTimer, System_millis) = U32(0, 3))

\* C6's case: advance at 4294967294, then three ticks.
C6_Witness ==
    /\ sinceAdvance.atCounter
    /\ sinceAdvance.count = [wraps |-> 0, hi |-> 0, lo |-> 3]
    /\ ledTimer.Previous = U32(65535, 65534)

\* The step is a statement of millis_Init.
InitStatement == pc \in InitPcs /\ pc' # pc

\* The step is the last statement of millis_Init, which returns to the caller.
InitReturns == pc = "L102" /\ pc' = "L23"

\* C7: millis_Init leaves the I bit alone; interrupts that are off are turned
\* on only by the caller's globalInt_Enable, after millis_Init; the counter
\* advances only with interrupts on, so it is still 0 when millis_Init returns
\* with interrupts off; and Running, once reached, is never left.
C7_RunningNeedsInitAndEnable ==
    [][/\ InitStatement => SREG_I' = SREG_I
       /\ (~InterruptsOn /\ InterruptsOn') => (pc = "L23" /\ pc' = "read")
       /\ System_millis' # System_millis => InterruptsOn
       /\ (InitReturns /\ ~InterruptsOn') => System_millis' = Zero
       /\ Running => Running']_vars

\* C7's case: millis_Init has returned with interrupts still off, a compare
\* match is already pending, and the counter has not moved.
C7_Witness ==
    /\ pc = "L23" /\ ~InterruptsOn
    /\ "OCF0A" \in TIFR0 /\ "OCIE0A" \in TIMSK0
    /\ System_millis = Zero

\* C8: the compare value is round(F / D / 1000) - 1 = 249 for F = 16 MHz and
\* D = 64, so a compare-match period is (OCR0A + 1) * 64 = 16000 CPU cycles,
\* a millisecond, and the counter goes up by exactly one in each.
C8_PeriodIsOneMillisecond ==
    /\ pc \notin InitPcs =>
          /\ Prescaler(TCCR0B) = 64
          /\ OCR0A = Threshold(F_CPU, Prescaler(TCCR0B))
          /\ OCR0A = 249
    /\ period.done > 0 =>
          /\ period.last = (OCR0A + 1) * 64
          /\ period.last = 16000
          /\ period.last * 1000 = F_CPU
          /\ period.lastIncs = 1

\* C8's case: two whole periods have been measured after millis_Init.
C8_Witness == period.done = 2 /\ Num(System_millis) = N(0, 2)

\* C9: when millis_Init returns, no compare-match interrupt is pending.
C9_NoFlagPendingAtReturn == [][InitReturns => "OCF0A" \notin TIFR0']_vars

\* The step is taken by the main context.
MainStep == pc' # pc \/ unread' # unread

\* C10: only the ISR writes System_millis: no statement of millis_Init and no
\* step of the client (elapsed, expired, advance, the read) changes it, and it
\* returns to zero only by the ISR's increment of 2^32-1 (or in the course of
\* a long stretch of ISR executions).
C10_OnlyTheIsrWrites ==
    [][/\ MainStep => System_millis' = System_millis
       /\ System_millis' # System_millis => (IsrIncrements \/ IsrRunsLong)
       /\ (System_millis' = Zero /\ System_millis # Zero)
             => ((IsrIncrements /\ System_millis = Max32) \/ IsrRunsLong)]_vars

\* C10's case: millis_Init and the client's operations have all run while the
\* counter was not zero.
C10_Witness ==
    /\ pc = "L33"
    /\ System_millis # Zero
    /\ ledTimer.Previous # Zero /\ ledTimer.Delta # Zero
    /\ isrCount.wraps = 1

\* C11: with Interval = 0, expired(timer, now) is true for every now, below
\* Previous as well as from Previous on.
C11_ZeroIntervalAlwaysExpired ==
    (call.op = "expired" /\ ledTimer.Interval = Zero) => call.flag

\* C11's case: Interval is 0 and now is below Previous, and expired is true.
C11_Witness ==
    /\ call.op = "expired" /\ ledTimer.Interval = Zero /\ call.flag
    /\ ~NumGE(Num(call.now), Num(ledTimer.Previous))

\* C12: millis.h:30 (elapsed) writes Delta only, millis.h:31 (expired) writes
\* nothing of the timer, and millis.h:32 (advance) writes Previous only.
C12_TimerOperationsFrame ==
    [][/\ (pc = "L30" /\ pc' = "L31") =>
              /\ ledTimer'.Previous = ledTimer.Previous
              /\ ledTimer'.Interval = ledTimer.Interval
       /\ (pc = "L31" /\ pc' # "L31") => ledTimer' = ledTimer
       /\ (pc = "L32" /\ pc' = "L33") =>
              /\ ledTimer'.Interval = ledTimer.Interval
              /\ ledTimer'.Delta = ledTimer.Delta]_vars

\* C12's case: elapsed has written a Delta, expired was true and advance has
\* moved Previous, and the Interval is the one the client configured.
C12_Witness ==
    /\ pc = "L33"
    /\ ledTimer.Delta # Zero
    /\ ledTimer.Previous # Zero
    /\ ledTimer.Previous # System_millis
    /\ ledTimer.Interval = U32(0, 2)

\* What millis_Init is to leave in the Timer0 registers: CTC mode, the
\* prescaler 64, the compare-match A interrupt enabled, OCR0A = 249.
Configured ==
    /\ CTCMode(TCCR0A, TCCR0B)
    /\ ClockSelect(TCCR0B) = {"CS00", "CS01"}
    /\ "OCIE0A" \in TIMSK0
    /\ OCR0A = 249

\* C14: once millis_Init has returned the Timer0 registers are Configured,
\* whatever TCCR0A, TCCR0B, TIMSK0 and OCR0A held before.
C14_InitConfiguresTimer0 == pc \notin InitPcs => Configured

\* C14's case: millis_Init has just returned, and TCNT0 is above the compare
\* value, which only a timer that held other contents before can show.
C14_Witness == pc = "L23" /\ Configured /\ TCNT0 > OCR0A

\* C15: the handler is never nested.  No handler is ever suspended by another,
\* the I bit is clear for as long as a handler runs, so that a second compare
\* match stays pending, the value the handler loaded is still the counter's
\* when the handler stores its increment, and so System_millis keeps count of
\* the increments stored.
C15_IsrNeverNested ==
    /\ isrStack = << >>
    /\ InISR => ~SREG_I
    /\ isr = "L57w" => isrTmp = System_millis
    /\ Num(System_millis) = CountMod(isrCount)

\* C15's case: a second compare match has arrived between the load and the
\* store of a running handler, and the handler has not been preempted.
C15_Witness ==
    /\ isr = "L57w"
    /\ "OCF0A" \in TIFR0 /\ "OCIE0A" \in TIMSK0
    /\ isrStack = << >>
    /\ isrTmp = System_millis

\* C16: a Delta that elapsed has computed is the difference modulo 2^32 of
\* the counter value and the Previous that computation used, and it is that
\* value for as long as no other elapsed computes it, also after advance has
\* moved Previous.
C16_DeltaIsTheLastElapsed ==
    deltaOf.set =>
        Num(ledTimer.Delta) = NumSubMod(Num(deltaOf.now), Num(deltaOf.previous))

\* C16's case: elapsed computed a Delta other than zero and advance has moved
\* Previous since.
C16_Witness ==
    /\ pc = "L33"
    /\ deltaOf.set
    /\ ledTimer.Previous # deltaOf.previous
    /\ ledTimer.Delta # Zero
    /\ ledTimer.Delta # Sub32(System_millis, ledTimer.Previous)

\* A count of events is at least the number a uint32_t denotes.
CountGE(c, w) == c.wraps > 0 \/ NumGE(CountMod(c), Num(w))

\* C17 as claimed: when the periodic task runs again, at least Interval ISR
\* executions have completed since it ran the time before.
C17_TasksIntervalFiringsApart ==
    (pc = "L33" /\ task.again) => CountGE(task.gap, ledTimer.Interval)

\* C17, amended: when the periodic task runs, the snapshot that triggered it
\* is at least Interval, modulo 2^32, above the Previous it replaces, which is
\* the snapshot that triggered the task the time before.
C17_SnapshotsIntervalApart ==
    (pc = "L33" /\ task.ran) =>
        NumGE(NumSubMod(Num(ledTimer.Previous), Num(task.prev)),
              Num(ledTimer.Interval))

\* C17's case: the task runs a second time for an Interval of 2, on a snapshot
\* that is the counter's value, fewer than 2 ISR executions after the first.
C17_Witness ==
    /\ pc = "L33" /\ task.again
    /\ ledTimer.Interval = U32(0, 2)
    /\ sinceAdvance.atCounter
    /\ ledTimer.Previous # task.prev
    /\ ~CountGE(task.gap, ledTimer.Interval)

\* The ISR executions a step completes: one, or LongRun of them.
Firings == IF IsrRunsLong THEN LongRun ELSE N(0, 1)

\* C18: ISR executions do not end an expiry.  When the timer is expired at the
\* counter's value with elapsed value e, and j ISR executions follow with
\* e + j < 2^32 and no advance, it is expired at the counter's new value;
\* only the wrap of the elapsed value past 2^32 ends an expiry.
C18_ExpiryPersists ==
    [][((IsrIncrements \/ IsrRunsLong)
            /\ ledTimer' = ledTimer
            /\ expired(ledTimer, System_millis)
            /\ NumAdd(Num(elapsed(ledTimer, System_millis)), Firings).carry = 0)
        => expired(ledTimer, System_millis')]_vars

\* C18's case: the timer, with an Interval of 2, is still expired after an ISR
\* execution that took the counter through its wrap to below Previous.
C18_Witness ==
    /\ isr = "L58"
    /\ ledTimer.Interval = U32(0, 2)
    /\ ledTimer.Previous # Zero
    /\ expired(ledTimer, System_millis)
    /\ ~NumGE(Num(System_millis), Num(ledTimer.Previous))

\* The client has seen the interval expired: the test of millis.h:31 was true.
SeenExpired == pc = "L32"

\* C13: once millis_Init has run and global interrupts are enabled, the
\* polling client eventually sees the interval expired, for an Interval of
\* 0, of 2 and of the 1000 of the documented wait.
C13_PollingSeesExpiry == Running ~> SeenExpired

\* C13's case: the client has seen the 1000 ms expired, which took the ISR
\* 1000 executions.
C13_Witness ==
    /\ SeenExpired
    /\ ledTimer.Interval = U32(0, 1000)
    /\ NumGE(Num(System_millis), N(0, 1000))
    /\ NumGE(Num(ledTimer.Delta), N(0, 1000))

=============================================================================
